---- MODULE Spec2Model ----
(***************************************************************************)
(* The escrow program of solana/escrow/program/src/processor.rs, run by    *)
(* the host runtime against a small ledger of accounts.                    *)
(*                                                                         *)
(* A transaction carrying one instruction is submitted (Submit...), executed  *)
(* as one atomic unit (Process: the whole handler, then the runtime's      *)
(* commit-or-discard), and its outcome observed (Observe).  Between        *)
(* transactions a token holder may deposit into a custody account          *)
(* (Deposit).                                                              *)
(*                                                                         *)
(* Widths are scaled down: a byte has ByteBase values, a Pubkey has        *)
(* PubkeyBytes bytes and a u64 has U64Bytes bytes.                         *)
(***************************************************************************)
EXTENDS Integers, Sequences, FiniteSets, TLC

ByteBase == 4
PubkeyBytes == 2
U64Bytes == 3
MaxDeposits == 1

RECURSIVE Pow(_, _)
Pow(b, n) == IF n = 0 THEN 1 ELSE b * Pow(b, n - 1)

U64_MAX == Pow(ByteBase, U64Bytes) - 1

(***************************************************************************)
(* Accounts of the ledger.                                                 *)
(***************************************************************************)
Users == {"alice", "bob"}
TokAccts == {"tX", "t2", "aY", "bY", "bX"}
EscrowAccts == {"e1", "e2", "e3"}
ProgramId == "escrow_program"
TokenProgramId == "spl_token"
SystemProgramId == "system"
RentSysvarId == "rent"

KeyList ==
    <<"alice", "bob", "tX", "t2", "aY", "bY", "bX", "e1", "e2", "e3", "pda",
      "rent", "spl_token", "system", "escrow_program">>

\* A Pubkey as the number its bytes spell; 0 is Pubkey::default().
KeyId(k) == IF k = "default" THEN 0
            ELSE CHOOSE i \in 1..Len(KeyList) : KeyList[i] = k
KeyOf(i) == IF i \in 1..Len(KeyList) THEN KeyList[i] ELSE "default"

\* Pubkey::find_program_address(seeds, program_id): a function of its
\* arguments alone.
find_program_address(seed, program_id) ==
    IF seed = "escrow" /\ program_id = ProgramId
    THEN [key |-> "pda", bump |-> ByteBase - 1]
    ELSE [key |-> "default", bump |-> 0]

(***************************************************************************)
(* u64 arithmetic.                                                         *)
(***************************************************************************)
\* Variant: the sum wraps around instead of being refused.
checked_add_wrapping(a, b) == [ok |-> TRUE, val |-> (a + b) % (U64_MAX + 1)]

checked_add(a, b) ==
    IF a + b > U64_MAX THEN [ok |-> FALSE, val |-> 0]
    ELSE [ok |-> TRUE, val |-> a + b]

(***************************************************************************)
(* The ledger entry and its fixed-width little-endian encoding.            *)
(***************************************************************************)
\* Variant: the most significant byte comes first.
RECURSIVE EncBE(_, _)
EncBE(n, len) ==
    IF len = 0 THEN <<>> ELSE EncBE(n \div ByteBase, len - 1) \o <<n % ByteBase>>

RECURSIVE EncLE(_, _)
EncLE(n, len) ==
    IF len = 0 THEN <<>> ELSE <<n % ByteBase>> \o EncLE(n \div ByteBase, len - 1)

RECURSIVE DecLE(_)
DecLE(bytes) ==
    IF bytes = <<>> THEN 0 ELSE bytes[1] + ByteBase * DecLE(Tail(bytes))

Escrow_LEN == 1 + 3 * PubkeyBytes + U64Bytes

Zeroes(len) == [i \in 1..len |-> 0]

Escrow_pack_into_slice(e) ==
    <<IF e.is_initialized THEN 1 ELSE 0>>
    \o EncLE(KeyId(e.initializer_pubkey), PubkeyBytes)
    \o EncLE(KeyId(e.temp_token_account_pubkey), PubkeyBytes)
    \o EncLE(KeyId(e.initializer_token_to_receive_account_pubkey), PubkeyBytes)
    \o EncLE(e.expected_amount, U64Bytes)

Escrow_unpack_from_slice(src) ==
    IF src[1] \notin {0, 1}
    THEN [ok |-> FALSE, err |-> "InvalidAccountData"]
    ELSE [ok |-> TRUE, err |-> "none",
          val |-> [is_initialized |-> src[1] = 1,
                   initializer_pubkey |->
                       KeyOf(DecLE(SubSeq(src, 2, 1 + PubkeyBytes))),
                   temp_token_account_pubkey |->
                       KeyOf(DecLE(SubSeq(src, 2 + PubkeyBytes, 1 + 2 * PubkeyBytes))),
                   initializer_token_to_receive_account_pubkey |->
                       KeyOf(DecLE(SubSeq(src, 2 + 2 * PubkeyBytes, 1 + 3 * PubkeyBytes))),
                   expected_amount |->
                       DecLE(SubSeq(src, 2 + 3 * PubkeyBytes, Escrow_LEN))]]

\* Pack::unpack_unchecked: the length is checked, is_initialized is not.
Escrow_unpack_unchecked(input) ==
    IF Len(input) # Escrow_LEN
    THEN [ok |-> FALSE, err |-> "InvalidAccountData"]
    ELSE Escrow_unpack_from_slice(input)

\* Variant: is_initialized() is not required.
Escrow_unpack_any(input) == Escrow_unpack_unchecked(input)

\* Pack::unpack: unpack_unchecked, then is_initialized() is required.
Escrow_unpack(input) ==
    LET u == Escrow_unpack_unchecked(input)
    IN  IF ~u.ok THEN u
        ELSE IF ~u.val.is_initialized
        THEN [ok |-> FALSE, err |-> "UninitializedAccount"]
        ELSE u

\* Pack::pack: the destination must have the packed length.
Escrow_pack(e, dst) ==
    IF Len(dst) # Escrow_LEN
    THEN [ok |-> FALSE, err |-> "InvalidAccountData", data |-> dst]
    ELSE [ok |-> TRUE, err |-> "none", data |-> Escrow_pack_into_slice(e)]

(***************************************************************************)
(* The instruction payload: a tag byte, 0 for InitEscrow and 1 for         *)
(* Exchange, then the amount as a little-endian u64.                       *)
(***************************************************************************)
InitEscrowTag == 0

ExchangeTag == 1

\* The payload a client sends for the instruction of tag tag and amount amount.
Payload(tag, amount) == <<tag>> \o EncLE(amount, U64Bytes)

NoEscrowInstruction == [op |-> "none", amount |-> 0]

\* EscrowInstruction::unpack: the tag is split off, the amount is read from
\* the first eight of the bytes that follow.
EscrowInstruction_unpack(input) ==
    IF input = <<>>
    THEN [ok |-> FALSE, err |-> "InvalidInstruction", val |-> NoEscrowInstruction]
    ELSE IF input[1] \notin {InitEscrowTag, ExchangeTag}
    THEN [ok |-> FALSE, err |-> "InvalidInstruction", val |-> NoEscrowInstruction]
    ELSE IF Len(input) - 1 < U64Bytes
    THEN [ok |-> FALSE, err |-> "InvalidInstruction", val |-> NoEscrowInstruction]
    ELSE [ok |-> TRUE, err |-> "none",
          val |-> [op |-> IF input[1] = InitEscrowTag THEN "InitEscrow" ELSE "Exchange",
                   amount |-> DecLE(SubSeq(input, 2, 1 + U64Bytes))]]

(***************************************************************************)
(* Rent: the exemption threshold grows with the data length.               *)
(***************************************************************************)
minimum_balance(data_len) == 1 + data_len

is_exempt(lamports, data_len) == lamports >= minimum_balance(data_len)

(***************************************************************************)
(* The token interface (spl_token), as far as the program calls it.  A     *)
(* token account is [exists, mint, owner, amount]; its lamports are in     *)
(* acc.lamports.  Each call returns [ok, err, acc].                        *)
(***************************************************************************)
TokenFail(err, acc) == [ok |-> FALSE, err |-> err, acc |-> acc]

TokenOk(acc) == [ok |-> TRUE, err |-> "none", acc |-> acc]

\* spl_token transfer(source, destination, authority, amount)
Token_transfer(acc, source, dest, authority, signed, amount) ==
    LET s == acc.token[source]
        d == acc.token[dest]
    IN  IF ~s.exists \/ ~d.exists THEN TokenFail("InvalidAccountData", acc)
        ELSE IF s.amount < amount THEN TokenFail("InsufficientFunds", acc)
        ELSE IF s.mint # d.mint THEN TokenFail("MintMismatch", acc)
        ELSE IF s.owner # authority THEN TokenFail("OwnerMismatch", acc)
        ELSE IF ~signed THEN TokenFail("MissingRequiredSignature", acc)
        ELSE IF source = dest THEN TokenOk(acc)
        ELSE IF d.amount + amount > U64_MAX THEN TokenFail("Overflow", acc)
        ELSE TokenOk([acc EXCEPT !.token[source].amount = s.amount - amount,
                                 !.token[dest].amount = d.amount + amount])

\* spl_token set_authority(account, Some(new), AccountOwner, owner)
Token_set_authority(acc, account, new_authority, owner, signed) ==
    LET a == acc.token[account]
    IN  IF ~a.exists THEN TokenFail("InvalidAccountData", acc)
        ELSE IF a.owner # owner THEN TokenFail("OwnerMismatch", acc)
        ELSE IF ~signed THEN TokenFail("MissingRequiredSignature", acc)
        ELSE TokenOk([acc EXCEPT !.token[account].owner = new_authority])

\* spl_token close_account(account, destination, authority): the balance
\* must be zero; the account's lamports go to the destination and the
\* account ceases to exist.
Token_close_account(acc, account, dest, authority, signed) ==
    LET a == acc.token[account]
        sum == checked_add(acc.lamports[dest], acc.lamports[account])
    IN  IF account = dest THEN TokenFail("InvalidAccountData", acc)
        ELSE IF ~a.exists THEN TokenFail("InvalidAccountData", acc)
        ELSE IF a.amount # 0 THEN TokenFail("NonNativeHasBalance", acc)
        ELSE IF a.owner # authority THEN TokenFail("OwnerMismatch", acc)
        ELSE IF ~signed THEN TokenFail("MissingRequiredSignature", acc)
        ELSE IF ~sum.ok THEN TokenFail("Overflow", acc)
        ELSE TokenOk([acc EXCEPT !.lamports[dest] = sum.val,
                                 !.lamports[account] = 0,
                                 !.token[account].exists = FALSE,
                                 !.token[account].amount = 0])

\* TokenAccount::unpack of an account's data
TokenAccount_unpack(acc, key) ==
    IF acc.token[key].exists
    THEN [ok |-> TRUE, err |-> "none", val |-> acc.token[key]]
    ELSE [ok |-> FALSE, err |-> "InvalidAccountData", val |-> acc.token[key]]

\* AccountInfo.owner: the program that owns the account.
AccountOwner(acc, key) ==
    IF key \in TokAccts
    THEN IF acc.token[key].exists THEN TokenProgramId ELSE SystemProgramId
    ELSE IF key \in EscrowAccts
    THEN IF acc.lamports[key] = 0 THEN SystemProgramId ELSE ProgramId
    ELSE SystemProgramId

(***************************************************************************)
(* The program.  A handler maps the accounts it is given to                *)
(*   [result, at, acc, calls]:                                             *)
(* the ProgramResult, the place of the handler that returned it, the       *)
(* accounts as the handler left them, and the token-interface calls it     *)
(* invoked, in order.                                                      *)
(***************************************************************************)
Return(result, at, acc, calls) ==
    [result |-> result, at |-> at, acc |-> acc, calls |-> calls]

\* next_account_info: the i-th account of the list, if there is one.
HasAccount(keys, i) == i <= Len(keys)

\* Variant: the signer check is missing.
InitializerNotSigner_skipped(is_signer) == FALSE

\* if !initializer.is_signer
InitializerNotSigner(is_signer) == ~is_signer

\* if *token_to_receive_account.owner != spl_token::id()
NotTokenOwned(acc, key) == AccountOwner(acc, key) # TokenProgramId

\* Variant: the is_initialized check is missing.
AlreadyInitialized_skipped(escrow_info) == FALSE

\* if escrow_info.is_initialized()
AlreadyInitialized(escrow_info) == escrow_info.is_initialized

\* Variant: the two token account keys are stored in each other's field.
NewEscrowInfo_swapped(initializer, temp_token_account, token_to_receive_account, amount) ==
    [is_initialized |-> TRUE,
     initializer_pubkey |-> initializer,
     temp_token_account_pubkey |-> token_to_receive_account,
     initializer_token_to_receive_account_pubkey |-> temp_token_account,
     expected_amount |-> amount]

\* The fields InitEscrow writes into the entry.
NewEscrowInfo(initializer, temp_token_account, token_to_receive_account, amount) ==
    [is_initialized |-> TRUE,
     initializer_pubkey |-> initializer,
     temp_token_account_pubkey |-> temp_token_account,
     initializer_token_to_receive_account_pubkey |-> token_to_receive_account,
     expected_amount |-> amount]

\* Variant: only a declared amount above the balance is rejected.
AmountMismatch_above(amount_expected_by_taker, temp_info) ==
    amount_expected_by_taker > temp_info.amount

\* if amount_expected_by_taker != pdas_temp_token_account_info.amount
AmountMismatch(amount_expected_by_taker, temp_info) ==
    amount_expected_by_taker # temp_info.amount

\* Variant: the initializer is compared before the temp token account.
EscrowMismatch_initializer_first(escrow_info, pdas_temp_token_account, initializers_main_account, initializers_token_to_receive_account) ==
    IF escrow_info.initializer_pubkey # initializers_main_account
    THEN "initializer_pubkey"
    ELSE IF escrow_info.temp_token_account_pubkey # pdas_temp_token_account
    THEN "temp_token_account_pubkey"
    ELSE IF escrow_info.initializer_token_to_receive_account_pubkey
                # initializers_token_to_receive_account
    THEN "initializer_token_to_receive_account_pubkey"
    ELSE "none"

\* Variant: the temp token account is not compared.
EscrowMismatch_no_temp(escrow_info, pdas_temp_token_account, initializers_main_account, initializers_token_to_receive_account) ==
    IF escrow_info.initializer_pubkey # initializers_main_account
    THEN "initializer_pubkey"
    ELSE IF escrow_info.initializer_token_to_receive_account_pubkey
                # initializers_token_to_receive_account
    THEN "initializer_token_to_receive_account_pubkey"
    ELSE "none"

\* Variant: the initializer identity is not compared.
EscrowMismatch_no_initializer(escrow_info, pdas_temp_token_account, initializers_main_account, initializers_token_to_receive_account) ==
    IF escrow_info.temp_token_account_pubkey # pdas_temp_token_account
    THEN "temp_token_account_pubkey"
    ELSE IF escrow_info.initializer_token_to_receive_account_pubkey
                # initializers_token_to_receive_account
    THEN "initializer_token_to_receive_account_pubkey"
    ELSE "none"

\* The three identity checks of Exchange, in order: the field of the entry
\* that the supplied accounts first contradict, or "none".
EscrowMismatch(escrow_info, pdas_temp_token_account, initializers_main_account, initializers_token_to_receive_account) ==
    IF escrow_info.temp_token_account_pubkey # pdas_temp_token_account
    THEN "temp_token_account_pubkey"
    ELSE IF escrow_info.initializer_pubkey # initializers_main_account
    THEN "initializer_pubkey"
    ELSE IF escrow_info.initializer_token_to_receive_account_pubkey
                # initializers_token_to_receive_account
    THEN "initializer_token_to_receive_account_pubkey"
    ELSE "none"

\* Variant: leg a pays what the taker declared.
PaymentAmount_declared(escrow_info, amount_expected_by_taker) ==
    amount_expected_by_taker

\* The amount of leg a: what the entry demands.
PaymentAmount(escrow_info, amount_expected_by_taker) == escrow_info.expected_amount

\* Variant: the result of the close is dropped instead of propagated.
CloseTempAccount_unchecked(acc, pdas_temp_token_account, initializers_main_account, pda, pda_account) ==
    LET r == Token_close_account(acc, pdas_temp_token_account,
                                 initializers_main_account, pda, pda_account = pda)
    IN  IF r.ok THEN r ELSE TokenOk(acc)

\* invoke_signed(close_account(temp, initializer, pda))?
CloseTempAccount(acc, pdas_temp_token_account, initializers_main_account, pda, pda_account) ==
    Token_close_account(acc, pdas_temp_token_account, initializers_main_account,
                        pda, pda_account = pda)

\* Variant: Exchange derives its authority from another seed.
ExchangeSeeds_other == "trade"

\* The seeds of find_program_address in process_exchange: &[b"escrow"]
ExchangeSeeds == "escrow"

\* Variant: InitEscrow derives the new owner from another seed.
InitEscrowSeeds_other == "trade"

\* The seeds of find_program_address in process_init_escrow: &[b"escrow"]
InitEscrowSeeds == "escrow"

\* Variant: the data of every escrow account is emptied.
DeleteEscrow_all(acc, initializers_main_account, escrow_account, lamports) ==
    [acc EXCEPT !.lamports[initializers_main_account] = lamports,
                !.lamports[escrow_account] = 0,
                !.data = [e \in DOMAIN acc.data |-> <<>>]]

\* Variant: the lamports are moved but the data is left in place.
DeleteEscrow_keeps_data(acc, initializers_main_account, escrow_account, lamports) ==
    [acc EXCEPT !.lamports[initializers_main_account] = lamports,
                !.lamports[escrow_account] = 0]

\* The end of Exchange: the initializer's lamports become the sum, the
\* escrow account's lamports 0 and its data empty.
DeleteEscrow(acc, initializers_main_account, escrow_account, lamports) ==
    [acc EXCEPT !.lamports[initializers_main_account] = lamports,
                !.lamports[escrow_account] = 0,
                !.data[escrow_account] = <<>>]

\* Variant: the authority change also takes the tokens out of the account.
ChangeTempOwner_emptying(acc, temp_token_account, pda, initializer, signed) ==
    LET r == Token_set_authority(acc, temp_token_account, pda, initializer, signed)
    IN  IF r.ok THEN TokenOk([r.acc EXCEPT !.token[temp_token_account].amount = 0])
        ELSE r

\* Variant: the result of the authority change is dropped instead of
\* propagated.
ChangeTempOwner_unchecked(acc, temp_token_account, pda, initializer, signed) ==
    LET r == Token_set_authority(acc, temp_token_account, pda, initializer, signed)
    IN  IF r.ok THEN r ELSE TokenOk(acc)

\* invoke(set_authority(temp, Some(pda), AccountOwner, initializer))?
ChangeTempOwner(acc, temp_token_account, pda, initializer, signed) ==
    Token_set_authority(acc, temp_token_account, pda, initializer, signed)

process_init_escrow(acc, keys, signer, amount, program_id) ==
    IF ~HasAccount(keys, 1)
    THEN Return("NotEnoughAccountKeys", "initializer", acc, <<>>)
    ELSE IF InitializerNotSigner(signer)
    THEN Return("MissingRequiredSignature", "initializer", acc, <<>>)
    ELSE IF ~HasAccount(keys, 2)
    THEN Return("NotEnoughAccountKeys", "temp_token_account", acc, <<>>)
    ELSE IF ~HasAccount(keys, 3)
    THEN Return("NotEnoughAccountKeys", "token_to_receive_account", acc, <<>>)
    ELSE IF NotTokenOwned(acc, keys[3])
    THEN Return("IncorrectProgramId", "token_to_receive_account", acc, <<>>)
    ELSE IF ~HasAccount(keys, 4)
    THEN Return("NotEnoughAccountKeys", "escrow_account", acc, <<>>)
    ELSE IF ~HasAccount(keys, 5)
    THEN Return("NotEnoughAccountKeys", "rent", acc, <<>>)
    ELSE IF keys[5] # RentSysvarId
    THEN Return("InvalidArgument", "rent", acc, <<>>)
    ELSE IF ~is_exempt(acc.lamports[keys[4]], Len(acc.data[keys[4]]))
    THEN Return("NotRentExempt", "rent", acc, <<>>)
    ELSE
    LET initializer == keys[1]
        temp_token_account == keys[2]
        token_to_receive_account == keys[3]
        escrow_account == keys[4]
        unpacked == Escrow_unpack_unchecked(acc.data[escrow_account])
    IN  IF ~unpacked.ok
        THEN Return(unpacked.err, "unpack_unchecked", acc, <<>>)
        ELSE IF AlreadyInitialized(unpacked.val)
        THEN Return("AccountAlreadyInitialized", "is_initialized", acc, <<>>)
        ELSE
        LET escrow_info == NewEscrowInfo(initializer, temp_token_account,
                                         token_to_receive_account, amount)
            packed == Escrow_pack(escrow_info, acc.data[escrow_account])
            acc1 == [acc EXCEPT !.data[escrow_account] = packed.data]
            pda == find_program_address(InitEscrowSeeds, program_id).key
        IN  IF ~packed.ok
            THEN Return(packed.err, "pack", acc, <<>>)
            ELSE IF ~HasAccount(keys, 6)
            THEN Return("NotEnoughAccountKeys", "token_program", acc1, <<>>)
            ELSE
            LET changed == ChangeTempOwner(acc1, temp_token_account, pda,
                                           initializer, signer)
            IN  IF ~changed.ok
                THEN Return(changed.err, "set_authority", acc1,
                            <<"set_authority">>)
                ELSE Return("Ok", "end", changed.acc, <<"set_authority">>)

process_exchange(acc, keys, signer, amount_expected_by_taker, program_id) ==
    IF ~HasAccount(keys, 1)
    THEN Return("NotEnoughAccountKeys", "taker", acc, <<>>)
    ELSE IF ~signer
    THEN Return("MissingRequiredSignature", "taker", acc, <<>>)
    ELSE IF ~HasAccount(keys, 2)
    THEN Return("NotEnoughAccountKeys", "takers_sending_token_account", acc, <<>>)
    ELSE IF ~HasAccount(keys, 3)
    THEN Return("NotEnoughAccountKeys", "takers_token_to_receive_account", acc, <<>>)
    ELSE IF ~HasAccount(keys, 4)
    THEN Return("NotEnoughAccountKeys", "pdas_temp_token_account", acc, <<>>)
    ELSE
    LET taker == keys[1]
        takers_sending_token_account == keys[2]
        takers_token_to_receive_account == keys[3]
        pdas_temp_token_account == keys[4]
        temp_info == TokenAccount_unpack(acc, pdas_temp_token_account)
        pda == find_program_address(ExchangeSeeds, program_id).key
    IN  IF ~temp_info.ok
        THEN Return(temp_info.err, "unpack_temp", acc, <<>>)
        ELSE IF AmountMismatch(amount_expected_by_taker, temp_info.val)
        THEN Return("ExpectedAmountMismatch", "amount", acc, <<>>)
        ELSE IF ~HasAccount(keys, 5)
        THEN Return("NotEnoughAccountKeys", "initializers_main_account", acc, <<>>)
        ELSE IF ~HasAccount(keys, 6)
        THEN Return("NotEnoughAccountKeys",
                    "initializers_token_to_receive_account", acc, <<>>)
        ELSE IF ~HasAccount(keys, 7)
        THEN Return("NotEnoughAccountKeys", "escrow_account", acc, <<>>)
        ELSE
        LET initializers_main_account == keys[5]
            initializers_token_to_receive_account == keys[6]
            escrow_account == keys[7]
            unpacked == Escrow_unpack(acc.data[escrow_account])
            escrow_info == unpacked.val
            mismatch == EscrowMismatch(escrow_info, pdas_temp_token_account,
                                       initializers_main_account,
                                       initializers_token_to_receive_account)
        IN  IF ~unpacked.ok
            THEN Return(unpacked.err, "unpack_escrow", acc, <<>>)
            ELSE IF mismatch # "none"
            THEN Return("InvalidAccountData", mismatch, acc, <<>>)
            ELSE IF ~HasAccount(keys, 8)
            THEN Return("NotEnoughAccountKeys", "token_program", acc, <<>>)
            ELSE
            LET leg_a == Token_transfer(acc, takers_sending_token_account,
                                        initializers_token_to_receive_account,
                                        taker, signer,
                                        PaymentAmount(escrow_info,
                                            amount_expected_by_taker))
                calls_a == <<"transfer">>
            IN  IF ~leg_a.ok
                THEN Return(leg_a.err, "transfer_to_initializer", acc, calls_a)
                ELSE IF ~HasAccount(keys, 9)
                THEN Return("NotEnoughAccountKeys", "pda_account",
                            leg_a.acc, calls_a)
                ELSE
                LET pda_account == keys[9]
                    calls_b == Append(calls_a, "transfer")
                    leg_b == Token_transfer(leg_a.acc, pdas_temp_token_account,
                                            takers_token_to_receive_account,
                                            pda, pda_account = pda,
                                            temp_info.val.amount)
                IN  IF pda_account # pda
                    THEN Return("MissingAccount", "transfer_to_taker",
                                leg_a.acc, calls_b)
                    ELSE IF ~leg_b.ok
                    THEN Return(leg_b.err, "transfer_to_taker",
                                leg_a.acc, calls_b)
                    ELSE
                    LET calls_c == Append(calls_b, "close_account")
                        closed == CloseTempAccount(leg_b.acc,
                                      pdas_temp_token_account,
                                      initializers_main_account,
                                      pda, pda_account)
                    IN  IF ~closed.ok
                        THEN Return(closed.err, "close_account",
                                    leg_b.acc, calls_c)
                        ELSE
                        LET sum == checked_add(
                                closed.acc.lamports[initializers_main_account],
                                closed.acc.lamports[escrow_account])
                        IN  IF ~sum.ok
                            THEN Return("AmountOverflow", "checked_add",
                                        closed.acc, calls_c)
                            ELSE Return("Ok", "end",
                                   DeleteEscrow(closed.acc,
                                                initializers_main_account,
                                                escrow_account, sum.val),
                                   calls_c)

\* Variant: a payload that does not decode is run as InitEscrow { amount: 0 }.
process_unchecked(acc, instruction, program_id) ==
    LET decoded == EscrowInstruction_unpack(instruction.data)
    IN  IF decoded.ok /\ decoded.val.op = "Exchange"
        THEN process_exchange(acc, instruction.keys, instruction.signer,
                              decoded.val.amount, program_id)
        ELSE process_init_escrow(acc, instruction.keys, instruction.signer,
                                 decoded.val.amount, program_id)

\* Processor::process: the payload is decoded, and the handler of the decoded
\* instruction is run with the decoded amount.
process(acc, instruction, program_id) ==
    LET decoded == EscrowInstruction_unpack(instruction.data)
    IN  IF ~decoded.ok
        THEN Return(decoded.err, "unpack_instruction", acc, <<>>)
        ELSE IF decoded.val.op = "InitEscrow"
        THEN process_init_escrow(acc, instruction.keys, instruction.signer,
                                 decoded.val.amount, program_id)
        ELSE process_exchange(acc, instruction.keys, instruction.signer,
                              decoded.val.amount, program_id)

\* Variant: the writes of a failed instruction are kept too.
Commit_always(pre, out) == out.acc

\* The runtime keeps what an instruction wrote only if it returned Ok.
Commit(pre, out) == IF out.result = "Ok" THEN out.acc ELSE pre

(***************************************************************************)
(* The instructions submitted.  keys is the account list, signer tells     *)
(* whether its first account signed the transaction, data is the payload;  *)
(* op and amount are what the client means to send.                        *)
(***************************************************************************)
Instruction(op, keys, signer, amount) ==
    [op |-> op, keys |-> keys, signer |-> signer, amount |-> amount,
     data |-> IF op = "InitEscrow" THEN Payload(InitEscrowTag, amount)
              ELSE IF op = "Exchange" THEN Payload(ExchangeTag, amount)
              ELSE <<>>]

NoInstruction == Instruction("none", <<>>, FALSE, 0)

Prefixes(lists, lens) == {SubSeq(l, 1, n) : l \in lists, n \in lens}

InitAmounts == {0, 2}

\* Account lists of InitEscrow: initializer, temp token account, token account
\* to receive, escrow account, rent sysvar, token program.
InitEscrowLists(initializers, temps, rents) ==
    {<<i, t, r, e, s, TokenProgramId>> :
        i \in initializers, t \in temps, r \in {"aY", "tX", "bob"},
        e \in EscrowAccts, s \in rents}

\* Every full list signed by its initializer; bob offering his own bX for
\* e2; and for alice offering tX, the same lists unsigned, cut short, or with
\* another account for the sysvar.
InitEscrowInputs ==
    {Instruction("InitEscrow", k, TRUE, a) :
        k \in InitEscrowLists(Users, {"tX", "t2"}, {RentSysvarId}),
        a \in InitAmounts}
    \cup {Instruction("InitEscrow",
                      <<"bob", "bX", "bY", "e2", RentSysvarId, TokenProgramId>>,
                      TRUE, 2)}
    \cup {Instruction("InitEscrow", k, FALSE, 2) :
            k \in InitEscrowLists({"alice"}, {"tX"}, {RentSysvarId})}
    \cup {Instruction("InitEscrow", k, TRUE, 2) :
            k \in Prefixes(InitEscrowLists({"alice"}, {"tX"}, {RentSysvarId}), 0..5)
                  \cup InitEscrowLists({"alice"}, {"tX"}, {SystemProgramId})}

ExchangeAmounts == {1, 2, 3}

\* Account lists of Exchange: taker, taker's sending account, taker's account
\* to receive, temp token account, initializer, initializer's account to
\* receive, escrow account, token program, PDA account.
ExchangeLists(sendings, receives, pdas) ==
    {<<"bob", s, r, t, m, ir, e, TokenProgramId, p>> :
        s \in sendings, r \in receives, t \in {"tX", "t2"}, m \in Users,
        ir \in {"aY", "tX"}, e \in {"e1", "e2"}, p \in pdas}

\* Every full list signed by the taker, who pays from bY or bX and receives
\* into bX or bY or, paying from bY, into an account the initiator offered;
\* and for bob paying from bY into bX, the same lists unsigned, or, declaring
\* 2, cut short or with another account for the PDA.
ExchangeInputs ==
    {Instruction("Exchange", k, TRUE, a) :
        k \in ExchangeLists({"bY", "bX"}, {"bX", "bY"}, {"pda"})
              \cup ExchangeLists({"bY"}, {"tX", "t2"}, {"pda"}),
        a \in ExchangeAmounts}
    \cup {Instruction("Exchange", k, FALSE, a) :
            k \in ExchangeLists({"bY"}, {"bX"}, {"pda"}), a \in ExchangeAmounts}
    \cup {Instruction("Exchange", k, TRUE, 2) :
            k \in Prefixes(ExchangeLists({"bY"}, {"bX"}, {"pda"}), 0..8)
                  \cup ExchangeLists({"bY"}, {"bX"}, {"alice"})}

\* Payloads that are no instruction: nothing at all, a tag that stands for no
\* instruction, and either tag with an amount cut short.
UndecodablePayloads ==
    {<<>>, Payload(ExchangeTag + 1, 2),
     SubSeq(Payload(InitEscrowTag, 2), 1, U64Bytes),
     <<ExchangeTag>>}

\* The account lists of a good InitEscrow and of a good Exchange, signed,
\* with a payload that is no instruction.
UndecodableInputs ==
    {[op |-> "Undecodable", keys |-> k, signer |-> TRUE, amount |-> 0, data |-> d] :
        k \in {<<"alice", "tX", "aY", "e1", RentSysvarId, TokenProgramId>>,
               <<"bob", "bY", "bX", "tX", "alice", "aY", "e1", TokenProgramId, "pda">>},
        d \in UndecodablePayloads}

(***************************************************************************)
(* The state machine.                                                      *)
(***************************************************************************)
VARIABLES accounts, pc, tx, res, deposits, history

vars == <<accounts, pc, tx, res, deposits, history>>

\* history[e]: how many InitEscrow succeeded on e, what the first of them
\* was given (initializer, temp account, receive account, amount), and how
\* many Exchange succeeded on e.
NoHistory ==
    [e \in EscrowAccts |-> [inits |-> 0, given |-> <<>>, settled |-> 0]]

\* The outcome record while no outcome is on display.
NoOutcome(acc) ==
    [result |-> "none", at |-> "none", calls |-> <<>>, pre |-> acc, work |-> acc]

InitAccounts(aliceLamports) ==
    [lamports |->
        [k \in Users \cup TokAccts \cup EscrowAccts |->
            IF k = "alice" THEN aliceLamports
            ELSE IF k = "bob" THEN 2
            ELSE IF k \in {"e1", "e2"} THEN minimum_balance(Escrow_LEN)
            ELSE IF k = "e3" THEN minimum_balance(Escrow_LEN) - 1
            ELSE 1],
     data |-> [e \in EscrowAccts |-> Zeroes(Escrow_LEN)],
     token |->
        [t \in TokAccts |->
            [exists |-> TRUE,
             mint |-> IF t \in {"aY", "bY"} THEN "Y" ELSE "X",
             owner |-> IF t \in {"bY", "bX"} THEN "bob" ELSE "alice",
             amount |-> IF t \in {"tX", "bY"} THEN 2
                        ELSE IF t = "aY" THEN 0 ELSE 1]]]

Init ==
    /\ \E al \in {2, U64_MAX - 1} : accounts = InitAccounts(al)
    /\ pc = "idle"
    /\ tx = NoInstruction
    /\ res = NoOutcome(accounts)
    /\ deposits = 0
    /\ history = NoHistory

SubmitInitEscrow ==
    /\ pc = "idle"
    /\ \E i \in InitEscrowInputs : tx' = i
    /\ pc' = "pending"
    /\ UNCHANGED <<accounts, res, deposits, history>>

SubmitExchange ==
    /\ pc = "idle"
    /\ \E i \in ExchangeInputs : tx' = i
    /\ pc' = "pending"
    /\ UNCHANGED <<accounts, res, deposits, history>>

SubmitUndecodable ==
    /\ pc = "idle"
    /\ \E i \in UndecodableInputs : tx' = i
    /\ pc' = "pending"
    /\ UNCHANGED <<accounts, res, deposits, history>>

\* The runtime runs the instruction in flight: the handler, then the commit.
Process ==
    /\ pc = "pending"
    /\ LET out == process(accounts, tx, ProgramId)
       IN  /\ accounts' = Commit(accounts, out)
           /\ res' = [result |-> out.result, at |-> out.at, calls |-> out.calls,
                      pre |-> accounts, work |-> out.acc]
           /\ history' =
                IF tx.op = "InitEscrow" /\ out.result = "Ok"
                THEN [history EXCEPT ![tx.keys[4]] =
                        [inits |-> @.inits + 1,
                         given |-> IF @.inits = 0
                                   THEN <<tx.keys[1], tx.keys[2], tx.keys[3],
                                          tx.amount>>
                                   ELSE @.given,
                         settled |-> @.settled]]
                ELSE IF tx.op = "Exchange" /\ out.result = "Ok"
                THEN [history EXCEPT ![tx.keys[7]].settled = @ + 1]
                ELSE history
    /\ pc' = "done"
    /\ UNCHANGED <<tx, deposits>>

\* The client has seen the outcome; the next transaction may be submitted.
Observe ==
    /\ pc = "done"
    /\ pc' = "idle"
    /\ tx' = NoInstruction
    /\ res' = NoOutcome(accounts)
    /\ UNCHANGED <<accounts, deposits, history>>

\* A third party (a token holder other than the initiator of the trade)
\* transfers one token into a trade's custody account, directly through the
\* token interface.
Deposit ==
    /\ pc = "idle"
    /\ deposits < MaxDeposits
    /\ \E src \in TokAccts, dst \in TokAccts, e \in EscrowAccts :
        /\ Escrow_unpack(accounts.data[e]).ok
        /\ Escrow_unpack(accounts.data[e]).val.temp_token_account_pubkey = dst
        /\ accounts.token[src].owner \in Users
        /\ accounts.token[src].owner
              # Escrow_unpack(accounts.data[e]).val.initializer_pubkey
        /\ LET r == Token_transfer(accounts, src, dst,
                                   accounts.token[src].owner, TRUE, 1)
           IN  /\ r.ok
               /\ accounts' = r.acc
               /\ res' = NoOutcome(r.acc)
    /\ deposits' = deposits + 1
    /\ UNCHANGED <<pc, tx, history>>

Next ==
    \/ SubmitInitEscrow
    \/ SubmitExchange
    \/ SubmitUndecodable
    \/ Process
    \/ Observe
    \/ Deposit

Spec == Init /\ [][Next]_vars

(***************************************************************************)
(* The encoding on its own: an entry value is packed into a zeroed buffer  *)
(* of the entry length as InitEscrow packs it, the bytes are possibly cut  *)
(* short, and unpacked both ways the program unpacks (unpack_unchecked in  *)
(* InitEscrow, unpack in Exchange).  tx holds the entry, res the bytes and *)
(* what the two unpacks returned.                                          *)
(***************************************************************************)
CodecKeys == {"default", "alice", "tX", "escrow_program"}

CodecEntries ==
    [is_initialized : BOOLEAN,
     initializer_pubkey : CodecKeys,
     temp_token_account_pubkey : CodecKeys,
     initializer_token_to_receive_account_pubkey : CodecKeys,
     expected_amount : 0..U64_MAX]

NoBytes == [bytes |-> <<>>, unchecked |-> "none", checked |-> "none"]

CodecInit ==
    /\ accounts = InitAccounts(2)
    /\ pc = "entry"
    /\ tx \in CodecEntries
    /\ res = NoBytes
    /\ deposits = 0
    /\ history = NoHistory

CodecPack ==
    /\ pc = "entry"
    /\ res' = [NoBytes EXCEPT !.bytes = Escrow_pack(tx, Zeroes(Escrow_LEN)).data]
    /\ pc' = "packed"
    /\ UNCHANGED <<accounts, tx, deposits, history>>

CodecTruncate ==
    /\ pc = "packed"
    /\ \E n \in 0..(Escrow_LEN - 1) :
          res' = [res EXCEPT !.bytes = SubSeq(res.bytes, 1, n)]
    /\ pc' = "truncated"
    /\ UNCHANGED <<accounts, tx, deposits, history>>

CodecUnpack ==
    /\ pc \in {"packed", "truncated"}
    /\ res' = [res EXCEPT !.unchecked = Escrow_unpack_unchecked(res.bytes),
                          !.checked = Escrow_unpack(res.bytes)]
    /\ pc' = IF pc = "packed" THEN "unpacked" ELSE "unpacked_truncated"
    /\ UNCHANGED <<accounts, tx, deposits, history>>

CodecNext ==
    \/ CodecPack
    \/ CodecTruncate
    \/ CodecUnpack

CodecSpec == CodecInit /\ [][CodecNext]_vars

(***************************************************************************)
(* Vocabulary of the properties.  While pc = "done", tx is the instruction *)
(* that ran, res.pre the ledger before it, accounts the ledger after it,   *)
(* and res.work the accounts as the handler left them when it returned.    *)
(***************************************************************************)
PDA == find_program_address("escrow", ProgramId).key

DoneInit == pc = "done" /\ tx.op = "InitEscrow"

DoneExchange == pc = "done" /\ tx.op = "Exchange"

\* Nothing was written, neither by the handler nor to the ledger.
Untouched == accounts = res.pre /\ res.work = res.pre

\* The entry stored in escrow account e of ledger acc ([ok, err, val]).
EntryOf(acc, e) == Escrow_unpack(acc.data[e])

\* The positions of Exchange's account list.
XTaker == tx.keys[1]
XSending == tx.keys[2]
XTakerReceive == tx.keys[3]
XTemp == tx.keys[4]
XInitMain == tx.keys[5]
XInitReceive == tx.keys[6]
XEscrow == tx.keys[7]

\* What a successful Exchange on an entry demanding E, with custody
\* balance B, adds to the balance of token account k.
NetFlow(k, E, B) ==
    (IF k = XInitReceive THEN E ELSE 0) + (IF k = XTakerReceive THEN B ELSE 0)
    - (IF k = XSending THEN E ELSE 0)

(***************************************************************************)
(* C1: after every successful InitEscrow the temp token account's owner    *)
(* is the program derived address of seed "escrow", and the entry holds    *)
(* is_initialized = true, the signer's key, the supplied temp and receive  *)
(* account keys and the instruction's amount.                              *)
(***************************************************************************)
C1_InitEscrowPostcondition ==
    (DoneInit /\ res.result = "Ok") =>
        /\ tx.signer
        /\ accounts.token[tx.keys[2]].owner = PDA
        /\ EntryOf(accounts, tx.keys[4]).ok
        /\ EntryOf(accounts, tx.keys[4]).val =
              [is_initialized |-> TRUE,
               initializer_pubkey |-> tx.keys[1],
               temp_token_account_pubkey |-> tx.keys[2],
               initializer_token_to_receive_account_pubkey |-> tx.keys[3],
               expected_amount |-> tx.amount]

C1_Witness ==
    /\ DoneInit /\ res.result = "Ok"
    /\ res.pre.token[tx.keys[2]].owner = "alice"
    /\ tx.keys[2] # tx.keys[3]

(***************************************************************************)
(* C2.  The Exchange the claim describes: a signing counterparty, the      *)
(* full account list with the accounts the entry records, the declared     *)
(* amount equal to the custody balance, a sending account of the           *)
(* counterparty holding the demanded amount and a receive account of the   *)
(* counterparty for the deposited token.                                   *)
(***************************************************************************)
C2_Case ==
    /\ DoneExchange /\ tx.signer /\ Len(tx.keys) = 9
    /\ history[XEscrow].inits >= 1
    /\ EntryOf(res.pre, XEscrow).ok
    /\ LET entry == EntryOf(res.pre, XEscrow).val
       IN  /\ XTemp = entry.temp_token_account_pubkey
           /\ XInitMain = entry.initializer_pubkey
           /\ XInitReceive = entry.initializer_token_to_receive_account_pubkey
           /\ res.pre.token[XSending].amount >= entry.expected_amount
    /\ tx.keys[8] = TokenProgramId /\ tx.keys[9] = PDA
    /\ tx.amount = res.pre.token[XTemp].amount
    /\ res.pre.token[XSending].exists
    /\ res.pre.token[XSending].owner = XTaker
    /\ res.pre.token[XSending].mint = res.pre.token[XInitReceive].mint
    /\ res.pre.token[XTakerReceive].exists
    /\ res.pre.token[XTakerReceive].owner = XTaker
    /\ res.pre.token[XTakerReceive].mint = res.pre.token[XTemp].mint

C2_Outcome ==
    LET E == EntryOf(res.pre, XEscrow).val.expected_amount
        B == res.pre.token[XTemp].amount
    IN  /\ res.result = "Ok"
        /\ accounts.token[XInitReceive].amount
              = res.pre.token[XInitReceive].amount + E
        /\ accounts.token[XSending].amount = res.pre.token[XSending].amount - E
        /\ accounts.token[XTakerReceive].amount
              = res.pre.token[XTakerReceive].amount + B
        /\ ~accounts.token[XTemp].exists
        /\ accounts.token[XTemp].amount = 0
        /\ accounts.lamports[XTemp] = 0
        /\ accounts.data[XEscrow] = <<>>
        /\ accounts.lamports[XEscrow] = 0
        /\ accounts.lamports[XInitMain]
              = res.pre.lamports[XInitMain] + res.pre.lamports[XTemp]
                + res.pre.lamports[XEscrow]

\* C2 as claimed: every such Exchange succeeds with the stated result.
C2_ExchangeSettles == C2_Case => C2_Outcome

\* The four token accounts are four accounts, the initiator's receive
\* account still exists, and the initiator's lamports do not overflow.
C2_Regular ==
    /\ Cardinality({XSending, XTakerReceive, XTemp, XInitReceive}) = 4
    /\ res.pre.token[XInitReceive].exists
    /\ res.pre.lamports[XInitMain] + res.pre.lamports[XTemp]
         + res.pre.lamports[XEscrow] <= U64_MAX

(***************************************************************************)
(* C2 (amended): such an Exchange succeeds with the stated result when     *)
(* the custody account, the initiator's receive account and the            *)
(* counterparty's two accounts are four distinct accounts, the             *)
(* initiator's receive account still exists, and the initiator's lamports  *)
(* plus those of the custody account and of the entry fit in a u64.        *)
(***************************************************************************)
C2_RegularExchangeSettles == (C2_Case /\ C2_Regular) => C2_Outcome

C2_Witness ==
    /\ C2_Case /\ C2_Regular /\ res.result = "Ok"
    /\ EntryOf(res.pre, XEscrow).val.expected_amount = 2
    /\ res.pre.token[XTemp].amount = 1

(***************************************************************************)
(* C3: an InitEscrow on an escrow account that already holds an            *)
(* initialized entry fails, with AccountAlreadyInitialized when the three  *)
(* earlier preconditions hold, and leaves the entry and every token        *)
(* account's owner as they were; no escrow account is ever initialized     *)
(* by more than one InitEscrow.                                            *)
(***************************************************************************)
C3_NoReinitialization ==
    /\ (DoneInit /\ Len(tx.keys) >= 4 /\ EntryOf(res.pre, tx.keys[4]).ok) =>
          /\ res.result # "Ok"
          /\ (/\ tx.signer
              /\ Len(tx.keys) >= 5
              /\ tx.keys[5] = RentSysvarId
              /\ AccountOwner(res.pre, tx.keys[3]) = TokenProgramId
              /\ is_exempt(res.pre.lamports[tx.keys[4]],
                           Len(res.pre.data[tx.keys[4]])))
                => res.result = "AccountAlreadyInitialized"
          /\ accounts.data[tx.keys[4]] = res.pre.data[tx.keys[4]]
          /\ res.work.data[tx.keys[4]] = res.pre.data[tx.keys[4]]
          /\ \A t \in TokAccts :
                /\ accounts.token[t].owner = res.pre.token[t].owner
                /\ res.work.token[t].owner = res.pre.token[t].owner
    /\ \A e \in EscrowAccts : history[e].inits <= 1

C3_Witness ==
    /\ DoneInit /\ res.result = "AccountAlreadyInitialized"
    /\ EntryOf(res.pre, tx.keys[4]).ok
    /\ res.pre.token[tx.keys[2]].owner = tx.keys[1]

(***************************************************************************)
(* C4: an Exchange by a signer whose declared amount differs from the      *)
(* balance of the custody account it names fails with                     *)
(* ExpectedAmountMismatch, and nothing is written: all balances, lamports, *)
(* owners and entries are as before.                                       *)
(***************************************************************************)
C4_AmountMismatchRejected ==
    /\ (/\ DoneExchange /\ tx.signer /\ Len(tx.keys) >= 4
        /\ res.pre.token[XTemp].exists
        /\ tx.amount # res.pre.token[XTemp].amount)
          => res.result = "ExpectedAmountMismatch"
    /\ (DoneExchange /\ res.result = "ExpectedAmountMismatch")
          => Untouched /\ res.calls = <<>>

C4_Witness ==
    /\ DoneExchange /\ res.result = "ExpectedAmountMismatch"
    /\ Len(tx.keys) = 9
    /\ EntryOf(res.pre, XEscrow).ok
    /\ EntryOf(res.pre, XEscrow).val.temp_token_account_pubkey = XTemp

(***************************************************************************)
(* C5: an Exchange on an initialized entry that supplies a custody         *)
(* account, an initiator or an initiator receive account other than the    *)
(* recorded one fails and writes nothing; when the signature and the       *)
(* declared amount are in order it fails with InvalidAccountData at the    *)
(* first field contradicted.                                               *)
(***************************************************************************)
C5_Mismatch ==
    /\ DoneExchange /\ Len(tx.keys) >= 7
    /\ EntryOf(res.pre, XEscrow).ok
    /\ LET entry == EntryOf(res.pre, XEscrow).val
       IN  \/ XTemp # entry.temp_token_account_pubkey
           \/ XInitMain # entry.initializer_pubkey
           \/ XInitReceive # entry.initializer_token_to_receive_account_pubkey

C5_IdentityMismatchRejected ==
    C5_Mismatch =>
        /\ res.result # "Ok"
        /\ Untouched
        /\ res.calls = <<>>
        /\ (/\ tx.signer
            /\ res.pre.token[XTemp].exists
            /\ tx.amount = res.pre.token[XTemp].amount)
              => LET entry == EntryOf(res.pre, XEscrow).val
                 IN  /\ res.result = "InvalidAccountData"
                     /\ res.at =
                          IF XTemp # entry.temp_token_account_pubkey
                          THEN "temp_token_account_pubkey"
                          ELSE IF XInitMain # entry.initializer_pubkey
                          THEN "initializer_pubkey"
                          ELSE "initializer_token_to_receive_account_pubkey"

C5_Witness ==
    /\ C5_Mismatch /\ Len(tx.keys) = 9
    /\ res.result = "InvalidAccountData"
    /\ res.at = "initializer_pubkey"

(***************************************************************************)
(* C6: an InitEscrow given its first five accounts reports the first       *)
(* violated of: initializer signed (MissingRequiredSignature), receive     *)
(* account owned by the token program (IncorrectProgramId), escrow         *)
(* account rent exempt (NotRentExempt), entry not yet initialized          *)
(* (AccountAlreadyInitialized); and whenever it returns one of the four,   *)
(* nothing has been written.                                               *)
(***************************************************************************)
C6_Errors ==
    {"MissingRequiredSignature", "IncorrectProgramId", "NotRentExempt",
     "AccountAlreadyInitialized"}

C6_FirstViolated ==
    IF ~tx.signer THEN "MissingRequiredSignature"
    ELSE IF AccountOwner(res.pre, tx.keys[3]) # TokenProgramId
    THEN "IncorrectProgramId"
    ELSE IF res.pre.lamports[tx.keys[4]]
              < minimum_balance(Len(res.pre.data[tx.keys[4]]))
    THEN "NotRentExempt"
    ELSE IF Escrow_unpack_unchecked(res.pre.data[tx.keys[4]]).ok
            /\ Escrow_unpack_unchecked(res.pre.data[tx.keys[4]]).val.is_initialized
    THEN "AccountAlreadyInitialized"
    ELSE "none"

C6_PreconditionOrder ==
    /\ (DoneInit /\ Len(tx.keys) >= 5 /\ tx.keys[5] = RentSysvarId) =>
          IF C6_FirstViolated = "none"
          THEN res.result \notin C6_Errors
          ELSE res.result = C6_FirstViolated
    /\ (DoneInit /\ res.result \in C6_Errors) => Untouched /\ res.calls = <<>>

C6_Witness ==
    /\ DoneInit /\ Len(tx.keys) = 6 /\ tx.keys[5] = RentSysvarId
    /\ res.result = "IncorrectProgramId"
    /\ res.pre.lamports[tx.keys[4]]
          < minimum_balance(Len(res.pre.data[tx.keys[4]]))
(***************************************************************************)
(* C7: whenever Exchange returns an error of one of the program's own      *)
(* checks (a missing signature, an amount mismatch, an identity mismatch,  *)
(* an account missing from the list), it has invoked no token-interface    *)
(* call.                                                                   *)
(***************************************************************************)
C7_OwnChecks ==
    {"taker", "takers_sending_token_account", "takers_token_to_receive_account",
     "pdas_temp_token_account", "amount", "initializers_main_account",
     "initializers_token_to_receive_account", "escrow_account",
     "temp_token_account_pubkey", "initializer_pubkey",
     "initializer_token_to_receive_account_pubkey", "token_program",
     "pda_account"}

C7_ChecksPrecedeCalls ==
    (DoneExchange /\ res.at \in C7_OwnChecks) => res.calls = <<>>

(***************************************************************************)
(* C8: after an Exchange either all of it took effect (the entry's amount  *)
(* paid to the initiator, the custody balance paid to the counterparty,    *)
(* the custody account closed and its lamports and the entry's credited to *)
(* the initiator, the entry deleted) or the ledger is as it was before.    *)
(***************************************************************************)
C8_AllOrNothing ==
    DoneExchange =>
        \/ res.result # "Ok" /\ accounts = res.pre
        \/ /\ res.result = "Ok"
           /\ res.calls = <<"transfer", "transfer", "close_account">>
           /\ LET E == EntryOf(res.pre, XEscrow).val.expected_amount
                  B == res.pre.token[XTemp].amount
              IN  \A k \in TokAccts \ {XTemp} :
                    accounts.token[k] =
                        [res.pre.token[k] EXCEPT !.amount = @ + NetFlow(k, E, B)]
           /\ ~accounts.token[XTemp].exists
           /\ accounts.token[XTemp].amount = 0
           /\ accounts.lamports[XTemp] = 0
           /\ accounts.data[XEscrow] = <<>>
           /\ accounts.lamports[XEscrow] = 0
           /\ accounts.lamports[XInitMain]
                 = res.pre.lamports[XInitMain] + res.pre.lamports[XTemp]
                   + res.pre.lamports[XEscrow]

\* An Exchange that failed at leg b, after leg a had paid the initiator.
C8_Witness ==
    /\ DoneExchange /\ res.result # "Ok"
    /\ res.at = "transfer_to_taker"
    /\ res.work.token[XInitReceive].amount > res.pre.token[XInitReceive].amount
    /\ accounts = res.pre

(***************************************************************************)
(* C9: a successful Exchange credits the counterparty's receive account    *)
(* with exactly the amount the counterparty declared, whatever was         *)
(* deposited into the custody account since InitEscrow.                    *)
(***************************************************************************)
C9_DeliversDeclaredAmount ==
    (DoneExchange /\ res.result = "Ok") =>
        LET E == EntryOf(res.pre, XEscrow).val.expected_amount
        IN  accounts.token[XTakerReceive].amount
              = res.pre.token[XTakerReceive].amount
                + NetFlow(XTakerReceive, E, tx.amount)

\* A settlement of tX, deposited with 2, after a third-party deposit.
C9_Witness ==
    /\ DoneExchange /\ res.result = "Ok"
    /\ deposits >= 1
    /\ XTemp = "tX" /\ tx.amount = 3
    /\ XTakerReceive \notin {XSending, XInitReceive}
    /\ accounts.token[XTakerReceive].amount
          = res.pre.token[XTakerReceive].amount + 3

(***************************************************************************)
(* C10: as long as an entry exists, its initiator, custody account,        *)
(* receive account and expected_amount are the ones its InitEscrow was     *)
(* given, whatever operations ran since; and a settlement pays the         *)
(* initiator the amount given at initiation.                               *)
(***************************************************************************)
C10_EntryImmutable ==
    /\ \A e \in EscrowAccts :
          EntryOf(accounts, e).ok =>
              /\ history[e].inits >= 1
              /\ EntryOf(accounts, e).val =
                    [is_initialized |-> TRUE,
                     initializer_pubkey |-> history[e].given[1],
                     temp_token_account_pubkey |-> history[e].given[2],
                     initializer_token_to_receive_account_pubkey |->
                         history[e].given[3],
                     expected_amount |-> history[e].given[4]]
    /\ (DoneExchange /\ res.result = "Ok" /\ XInitReceive # XTemp) =>
          accounts.token[XInitReceive].amount
            = res.pre.token[XInitReceive].amount
              + NetFlow(XInitReceive, history[XEscrow].given[4],
                        res.pre.token[XTemp].amount)

\* A settlement paying 2 while another entry stays in place.
C10_Witness ==
    /\ DoneExchange /\ res.result = "Ok"
    /\ history[XEscrow].given[4] = 2
    /\ XInitReceive \notin {XSending, XTakerReceive, XTemp}
    /\ \E e \in EscrowAccts \ {XEscrow} :
          EntryOf(accounts, e).ok /\ EntryOf(res.pre, e).ok

(***************************************************************************)
(* C11: in every step, a token account changes owner only from its         *)
(* initiator to the program derived address, and only by a successful      *)
(* InitEscrow that its owner signed and that names it as temp account; it  *)
(* ceases to exist only while owned by the program derived address, and    *)
(* only by a successful Exchange that names it as temp account; a closed   *)
(* account never comes back.  So its ownership makes at most the two       *)
(* transitions initiator -> PDA -> closed, in this order.                  *)
(***************************************************************************)
C11_Step(t) ==
    LET a == accounts.token[t]
        b == accounts'.token[t]
    IN  /\ (b.owner # a.owner) =>
              /\ a.exists /\ b.exists
              /\ a.owner \in Users /\ b.owner = PDA
              /\ pc = "pending" /\ tx.op = "InitEscrow" /\ res'.result = "Ok"
              /\ tx.signer /\ tx.keys[1] = a.owner /\ tx.keys[2] = t
        /\ (b.exists # a.exists) =>
              /\ a.exists /\ a.owner = PDA /\ b.owner = PDA
              /\ pc = "pending" /\ tx.op = "Exchange" /\ res'.result = "Ok"
              /\ tx.keys[4] = t

C11_OwnershipTransitions == [][\A t \in TokAccts : C11_Step(t)]_vars

\* A custody account that made both transitions, with its trade over.
C11_Witness ==
    /\ pc = "idle"
    /\ \E t \in TokAccts :
          /\ ~accounts.token[t].exists
          /\ accounts.token[t].owner = PDA
          /\ \E e \in EscrowAccts :
                /\ history[e].inits = 1
                /\ history[e].given[2] = t
                /\ accounts.data[e] = <<>>

(***************************************************************************)
(* C12: an Exchange whose escrow account holds no initialized entry (all   *)
(* zero, or emptied by a settlement, or not supplied at all) fails, with   *)
(* nothing written and no token call invoked; when its earlier checks pass *)
(* it fails at the read of the entry, with UninitializedAccount for an     *)
(* all-zero and InvalidAccountData for an empty account.  Every successful *)
(* Exchange follows a successful InitEscrow on the same escrow account.    *)
(***************************************************************************)
C12_NoEntry ==
    \/ Len(tx.keys) < 7
    \/ Len(res.pre.data[XEscrow]) # Escrow_LEN
    \/ res.pre.data[XEscrow][1] # 1

C12_ReachesEntry ==
    /\ tx.signer /\ Len(tx.keys) >= 7
    /\ res.pre.token[XTemp].exists
    /\ res.pre.token[XTemp].amount = tx.amount

TxEscrow ==
    IF tx.op = "InitEscrow"
    THEN IF Len(tx.keys) >= 4 THEN tx.keys[4] ELSE "none"
    ELSE IF Len(tx.keys) >= 7 THEN tx.keys[7] ELSE "none"

TempOf(acc, e) == EntryOf(acc, e).val.temp_token_account_pubkey

C13_Case(b) ==
    /\ pc = "done"
    /\ TxEscrow \in EscrowAccts \ {b}
    /\ EntryOf(res.pre, TxEscrow).ok
    /\ EntryOf(res.pre, b).ok
    /\ TempOf(res.pre, TxEscrow) # TempOf(res.pre, b)

C13_EntryAndAuthorityKept(b) ==
    /\ accounts.data[b] = res.pre.data[b]
    /\ accounts.token[TempOf(res.pre, b)].owner
          = res.pre.token[TempOf(res.pre, b)].owner
    /\ accounts.token[TempOf(res.pre, b)].exists
          = res.pre.token[TempOf(res.pre, b)].exists

C13_BalanceKept(b) ==
    accounts.token[TempOf(res.pre, b)].amount
        = res.pre.token[TempOf(res.pre, b)].amount

(***************************************************************************)
(* C13 as stated: an operation on live entry a leaves every other live     *)
(* entry b, with another temp account, unchanged: b's fields, the balance  *)
(* of b's temp account, and that account's authority.                      *)
(***************************************************************************)
C13_NoInterference ==
    \A b \in EscrowAccts :
        C13_Case(b) => C13_EntryAndAuthorityKept(b) /\ C13_BalanceKept(b)

(***************************************************************************)
(* C13 amended: an operation on live entry a leaves b's fields and the     *)
(* authority of b's temp account unchanged and never lowers that account's *)
(* balance; the balance is unchanged unless the Exchange on a names b's    *)
(* temp account as the account the taker receives into (or a records it as *)
(* the account the initiator receives into).                               *)
(***************************************************************************)
C13_PaysInto(b) ==
    /\ tx.op = "Exchange"
    /\ TempOf(res.pre, b) \in {XTakerReceive, XInitReceive}

C13_NoInterferenceButDeposits ==
    \A b \in EscrowAccts :
        C13_Case(b) =>
            /\ C13_EntryAndAuthorityKept(b)
            /\ accounts.token[TempOf(res.pre, b)].amount
                  >= res.pre.token[TempOf(res.pre, b)].amount
            /\ ~C13_PaysInto(b) => C13_BalanceKept(b)

\* A successful Exchange on one of two live trades, paying into accounts
\* other than the second trade's temp account.
C13_Witness ==
    \E b \in EscrowAccts :
        /\ C13_Case(b)
        /\ tx.op = "Exchange" /\ res.result = "Ok"
        /\ ~C13_PaysInto(b)
        /\ res.pre.token[TempOf(res.pre, b)].amount > 0

(***************************************************************************)
(* C14: the owner InitEscrow gives a temp account and the authority under  *)
(* which Exchange transfers from it and closes it are one key, the address *)
(* derived from the seed "escrow" and the program id: every account not    *)
(* owned by a user is owned by that one key, whoever initiated the trade,  *)
(* for whatever amount and on whichever escrow account; and an Exchange    *)
(* that reaches the transfer to the taker with that owner's account        *)
(* supplied is never refused for its authority.                            *)
(***************************************************************************)
C14_AuthorityErrors == {"MissingAccount", "OwnerMismatch", "MissingRequiredSignature"}

C14_SameAuthority ==
    /\ (DoneInit /\ res.result = "Ok") =>
          accounts.token[tx.keys[2]].owner = PDA
    /\ \A t \in TokAccts :
          accounts.token[t].owner \notin Users => accounts.token[t].owner = PDA
    /\ \A e \in EscrowAccts :
          EntryOf(accounts, e).ok =>
              accounts.token[TempOf(accounts, e)].owner = PDA
    /\ (/\ DoneExchange /\ Len(res.calls) >= 2
        /\ tx.keys[9] = res.pre.token[XTemp].owner) =>
          /\ res.result \notin C14_AuthorityErrors
          /\ res.pre.token[XTemp].owner = PDA

\* Two live trades of different initiators, amounts and escrow accounts,
\* their temp accounts under the same owner, and one of them settled with
\* that owner's authority.
C14_Witness ==
    /\ DoneExchange /\ res.result = "Ok"
    /\ \E e \in EscrowAccts \ {XEscrow} :
          /\ EntryOf(res.pre, e).ok
          /\ EntryOf(res.pre, e).val.initializer_pubkey
                # EntryOf(res.pre, XEscrow).val.initializer_pubkey
          /\ EntryOf(res.pre, e).val.expected_amount
                # EntryOf(res.pre, XEscrow).val.expected_amount
          /\ res.pre.token[TempOf(res.pre, e)].owner
                = res.pre.token[XTemp].owner

(***************************************************************************)
(* C15: in every step, if the temp account of a live entry loses tokens,   *)
(* changes owner or ceases to exist, the step is a successful Exchange on  *)
(* that entry, naming that temp account and the recorded receive account,  *)
(* and (unless the receive account is the temp account itself, or the      *)
(* account the taker pays from) the receive account has gained at least    *)
(* the entry's expected amount.  InitEscrow, a failed Exchange and a       *)
(* deposit never release the deposit.                                      *)
(***************************************************************************)
C15_Released(c) ==
    \/ accounts'.token[c].amount < accounts.token[c].amount
    \/ accounts'.token[c].owner # accounts.token[c].owner
    \/ accounts'.token[c].exists # accounts.token[c].exists

C15_Step(e) ==
    LET entry == EntryOf(accounts, e).val
        c == entry.temp_token_account_pubkey
        r == entry.initializer_token_to_receive_account_pubkey
    IN  (EntryOf(accounts, e).ok /\ C15_Released(c)) =>
            /\ pc = "pending" /\ tx.op = "Exchange" /\ res'.result = "Ok"
            /\ tx.signer
            /\ tx.keys[7] = e /\ tx.keys[4] = c /\ tx.keys[6] = r
            /\ tx.keys[5] = entry.initializer_pubkey
            /\ ~accounts'.token[c].exists
            /\ accounts'.data[e] = <<>>
            /\ r \in {c, tx.keys[2]}
                  \/ accounts'.token[r].amount
                        >= accounts.token[r].amount + entry.expected_amount

C15_NoRefundPath == [][\A e \in EscrowAccts : C15_Step(e)]_vars

\* A deposit, raised by a third party meanwhile, released by a settlement
\* that paid a positive expected amount.
C15_Witness ==
    /\ DoneExchange /\ res.result = "Ok"
    /\ EntryOf(res.pre, XEscrow).val.expected_amount > 0
    /\ res.pre.token[XTemp].amount > 0
    /\ ~accounts.token[XTemp].exists
    /\ accounts.token[XInitReceive].amount
          = res.pre.token[XInitReceive].amount
            + EntryOf(res.pre, XEscrow).val.expected_amount
    /\ deposits = 1

(***************************************************************************)
(* C16 vocabulary: the places of process_exchange where a failure is the   *)
(* token interface's, reported through invoke or invoke_signed.            *)
(***************************************************************************)
C16_TokenPlaces == {"transfer_to_initializer", "transfer_to_taker", "close_account"}

C16_OwnFailure ==
    DoneExchange /\ res.result # "Ok" /\ res.at \notin C16_TokenPlaces

(***************************************************************************)
(* C16 as stated: every failure of Exchange outside the token interface is *)
(* MissingRequiredSignature, ExpectedAmountMismatch, InvalidAccountData or *)
(* AmountOverflow.                                                         *)
(***************************************************************************)
C16_FourErrorKinds ==
    C16_OwnFailure =>
        res.result \in {"MissingRequiredSignature", "ExpectedAmountMismatch",
                        "InvalidAccountData", "AmountOverflow"}

(***************************************************************************)
(* C16 amended: every failure of Exchange outside the token interface is   *)
(* one of those four, or NotEnoughAccountKeys (a short account list), or   *)
(* UninitializedAccount (an uninitialized escrow account); and a lamport   *)
(* sum beyond u64::MAX is reported, never wrapped: a successful Exchange   *)
(* credits the initializer exactly the temp and escrow accounts' lamports. *)
(***************************************************************************)
C16_SixErrorKinds ==
    /\ C16_OwnFailure =>
          res.result \in {"MissingRequiredSignature", "ExpectedAmountMismatch",
                          "InvalidAccountData", "AmountOverflow",
                          "NotEnoughAccountKeys", "UninitializedAccount"}
    /\ (DoneExchange /\ res.at = "checked_add") => res.result = "AmountOverflow"
    /\ (DoneExchange /\ res.result = "Ok") =>
          accounts.lamports[XInitMain]
              = res.pre.lamports[XInitMain] + res.pre.lamports[XTemp]
                + res.pre.lamports[XEscrow]

\* An overflow of the initializer's lamports, reported by the program after
\* the three token calls went through.
C16_Witness ==
    /\ DoneExchange
    /\ res.result = "AmountOverflow"
    /\ res.calls = <<"transfer", "transfer", "close_account">>

(***************************************************************************)
(* C17: unpacking what was packed returns the entry that was packed, for   *)
(* either value of is_initialized, every identity and every amount from 0  *)
(* to u64::MAX (the unpack of Exchange, which also requires                *)
(* is_initialized, returns it for every initialized entry); and bytes      *)
(* shorter than the entry length, the empty sequence included, are         *)
(* rejected with InvalidAccountData by both unpacks.                       *)
(***************************************************************************)
C17_RoundTrip ==
    /\ pc = "unpacked" =>
          /\ Len(res.bytes) = Escrow_LEN
          /\ res.unchecked.ok /\ res.unchecked.val = tx
          /\ tx.is_initialized => res.checked.ok /\ res.checked.val = tx
    /\ pc = "unpacked_truncated" =>
          /\ ~res.unchecked.ok /\ res.unchecked.err = "InvalidAccountData"
          /\ ~res.checked.ok /\ res.checked.err = "InvalidAccountData"

\* The round trip of an initialized entry demanding u64::MAX, its three
\* identities all different.
C17_Witness ==
    /\ pc = "unpacked"
    /\ tx.is_initialized
    /\ tx.expected_amount = U64_MAX
    /\ tx.initializer_pubkey = "escrow_program"
    /\ tx.temp_token_account_pubkey = "tX"
    /\ tx.initializer_token_to_receive_account_pubkey = "alice"
    /\ res.checked.val = tx

(***************************************************************************)
(* C18: after a successful Exchange the escrow account has zero lamports   *)
(* and empty data; an Exchange naming an escrow account that was settled,  *)
(* or a temp account that a settlement closed, fails with nothing written  *)
(* and no token call invoked; so no escrow account is settled more often   *)
(* than it was initialized, which is at most once.                         *)
(***************************************************************************)
C18_SettledBefore ==
    \/ /\ Len(tx.keys) >= 7
       /\ history[XEscrow].inits >= 1
       /\ res.pre.data[XEscrow] = <<>>
    \/ /\ Len(tx.keys) >= 4
       /\ \E e \in EscrowAccts :
             /\ history[e].inits >= 1
             /\ res.pre.data[e] = <<>>
             /\ history[e].given[2] = XTemp

C18_SettledAtMostOnce ==
    /\ (DoneExchange /\ res.result = "Ok") =>
          /\ accounts.lamports[XEscrow] = 0
          /\ accounts.data[XEscrow] = <<>>
          /\ history[XEscrow].settled = 1
    /\ (DoneExchange /\ C18_SettledBefore) =>
          res.result # "Ok" /\ Untouched /\ res.calls = <<>>
    /\ \A e \in EscrowAccts :
          /\ history[e].settled <= history[e].inits
          /\ history[e].inits <= 1
          /\ history[e].settled = 1 <=>
                (history[e].inits = 1 /\ accounts.data[e] = <<>>)
          /\ history[e].settled = 1 =>
                /\ accounts.lamports[e] = 0
                /\ ~accounts.token[history[e].given[2]].exists

\* A second Exchange on a settled entry, with the list that settled it.
C18_Witness ==
    /\ DoneExchange /\ C18_SettledBefore
    /\ Len(tx.keys) = 9
    /\ history[XEscrow].settled = 1
    /\ history[XEscrow].given = <<XInitMain, XTemp, XInitReceive, 2>>
    /\ XTakerReceive = "bX" /\ XSending = "bY"

(***************************************************************************)
(* C19: an Exchange on an initialized entry, with at least its first seven *)
(* accounts and an existing temp account, returns the error of the first   *)
(* check it violates, in the order: taker signed                           *)
(* (MissingRequiredSignature), declared amount equals the temp account's   *)
(* balance (ExpectedAmountMismatch), temp account, initializer, receive    *)
(* account as recorded (InvalidAccountData each); if it violates none, it  *)
(* fails at none of the five.                                              *)
(***************************************************************************)
C19_Checks ==
    LET entry == EntryOf(res.pre, XEscrow).val
    IN  <<[ok |-> tx.signer,
           result |-> "MissingRequiredSignature", at |-> "taker"],
          [ok |-> tx.amount = res.pre.token[XTemp].amount,
           result |-> "ExpectedAmountMismatch", at |-> "amount"],
          [ok |-> XTemp = entry.temp_token_account_pubkey,
           result |-> "InvalidAccountData", at |-> "temp_token_account_pubkey"],
          [ok |-> XInitMain = entry.initializer_pubkey,
           result |-> "InvalidAccountData", at |-> "initializer_pubkey"],
          [ok |-> XInitReceive = entry.initializer_token_to_receive_account_pubkey,
           result |-> "InvalidAccountData",
           at |-> "initializer_token_to_receive_account_pubkey"]>>

C19_Violated == {i \in 1..5 : ~C19_Checks[i].ok}

C19_First == CHOOSE i \in C19_Violated : \A j \in C19_Violated : i <= j

C19_Case ==
    /\ DoneExchange /\ Len(tx.keys) >= 7
    /\ res.pre.token[XTemp].exists
    /\ EntryOf(res.pre, XEscrow).ok

C19_FirstViolatedCheck ==
    C19_Case =>
        IF C19_Violated # {}
        THEN /\ res.result = C19_Checks[C19_First].result
             /\ res.at = C19_Checks[C19_First].at
             /\ Untouched /\ res.calls = <<>>
        ELSE res.at \notin {C19_Checks[i].at : i \in 1..5}

\* A signed Exchange that declares another amount than the temp account
\* holds and contradicts the recorded temp account and initializer as well.
C19_Witness ==
    /\ C19_Case
    /\ C19_Violated = {2, 3, 4}
    /\ res.result = "ExpectedAmountMismatch"

(***************************************************************************)
(* C20: an InitEscrow whose authority change the token interface rejects   *)
(* returns the token interface's error; the entry it had packed is         *)
(* discarded with the failed instruction, so afterwards the escrow account *)
(* is as uninitialized as before and the temp account has the owner it     *)
(* had.  Hence every live entry records a temp account that exists and is  *)
(* owned by the program derived address.                                   *)
(***************************************************************************)
C20_Rejected == DoneInit /\ res.at = "set_authority"

C20_FailedInitLeavesNoEntry ==
    /\ C20_Rejected =>
          /\ res.result \in {"OwnerMismatch", "InvalidAccountData",
                              "MissingRequiredSignature"}
          /\ res.calls = <<"set_authority">>
          /\ accounts = res.pre
          /\ accounts.data[tx.keys[4]] = Zeroes(Escrow_LEN)
          /\ ~EntryOf(accounts, tx.keys[4]).ok
          /\ res.work.token = res.pre.token
    /\ (DoneInit /\ res.result = "Ok") =>
          res.pre.token[tx.keys[2]].owner = tx.keys[1]
    /\ \A e \in EscrowAccts :
          EntryOf(accounts, e).ok =>
              /\ accounts.token[TempOf(accounts, e)].exists
              /\ accounts.token[TempOf(accounts, e)].owner = PDA
              /\ history[e].inits = 1

\* bob offers alice's token account: the handler has packed the entry when
\* the token interface refuses, and the ledger shows none of it.
C20_Witness ==
    /\ C20_Rejected
    /\ res.result = "OwnerMismatch"
    /\ res.pre.token[tx.keys[2]].owner \in Users \ {tx.keys[1]}
    /\ EntryOf(res.work, tx.keys[4]).ok
    /\ ~EntryOf(accounts, tx.keys[4]).ok

(***************************************************************************)
(* C21: every Exchange on a live entry by a signing counterparty that      *)
(* supplies the recorded accounts, declares the temp account's balance     *)
(* and holds at least the expected amount succeeds, whatever accounts the  *)
(* initiator chose at InitEscrow (the temp account as receive account      *)
(* included) and whatever was deposited meanwhile.  Set aside are the      *)
(* overflow of the initiator's lamports, which Exchange reports by design, *)
(* and a receive account that has ceased to exist since.                   *)
(***************************************************************************)
C21_Regular ==
    /\ res.pre.token[XInitReceive].exists
    /\ res.pre.lamports[XInitMain] + res.pre.lamports[XTemp]
          + res.pre.lamports[XEscrow] <= U64_MAX

C21_EveryLiveEntrySettleable ==
    (C2_Case /\ C21_Regular) => res.result = "Ok"

(***************************************************************************)
(* C22: an Exchange whose three token calls went through adds the escrow   *)
(* account's lamports to the initializer's in u64 arithmetic.  If the sum  *)
(* is at most u64::MAX it succeeds, the initializer holds exactly the sum, *)
(* the escrow account 0, and the lamports of initializer, temp account and *)
(* escrow account together are what they were.  If the sum exceeds         *)
(* u64::MAX it fails with AmountOverflow, and the handler has changed      *)
(* neither of the two lamport balances since the close, nor the data.      *)
(***************************************************************************)
C22_StepD ==
    /\ DoneExchange
    /\ res.calls = <<"transfer", "transfer", "close_account">>
    /\ res.at # "close_account"

C22_Sum ==
    res.pre.lamports[XInitMain] + res.pre.lamports[XTemp]
        + res.pre.lamports[XEscrow]

C22_CheckedLamports ==
    C22_StepD =>
        IF C22_Sum <= U64_MAX
        THEN /\ res.result = "Ok"
             /\ accounts.lamports[XInitMain] = C22_Sum
             /\ accounts.lamports[XEscrow] = 0
             /\ accounts.lamports[XTemp] = 0
        ELSE /\ res.result = "AmountOverflow"
             /\ res.work.lamports[XInitMain]
                   = res.pre.lamports[XInitMain] + res.pre.lamports[XTemp]
             /\ res.work.lamports[XEscrow] = res.pre.lamports[XEscrow]
             /\ res.work.data[XEscrow] = res.pre.data[XEscrow]
             /\ accounts = res.pre

\* The initializer holds u64::MAX after the close, and the escrow account's
\* lamports no longer fit.
C22_Witness ==
    /\ C22_StepD
    /\ res.at = "checked_add"
    /\ res.work.lamports[XInitMain] = U64_MAX
    /\ res.work.lamports[XEscrow] > 0

(***************************************************************************)
(* C23: a successful Exchange changes nothing outside the taker's sending  *)
(* and receiving accounts, the temp account, the initializer's main and    *)
(* receiving accounts and the escrow account it was given: every other     *)
(* account keeps its lamports, every other token account its state, every  *)
(* other escrow account its data.  The initializer's main account changes  *)
(* in lamports only, which is all a user account has.                      *)
(***************************************************************************)
C23_Named ==
    {XSending, XTakerReceive, XTemp, XInitMain, XInitReceive, XEscrow}

C23_Same(k) ==
    /\ accounts.lamports[k] = res.pre.lamports[k]
    /\ k \in TokAccts => accounts.token[k] = res.pre.token[k]
    /\ k \in EscrowAccts => accounts.data[k] = res.pre.data[k]

C23_ExchangeFrame ==
    (DoneExchange /\ res.result = "Ok") =>
        \A k \in (Users \cup TokAccts \cup EscrowAccts) \ C23_Named : C23_Same(k)

\* A settlement while another trade is live, whose custody account and entry
\* are among the accounts that must stay as they are.
C23_Witness ==
    /\ DoneExchange
    /\ res.result = "Ok"
    /\ \E b \in EscrowAccts \ {XEscrow} :
          /\ EntryOf(res.pre, b).ok
          /\ TempOf(res.pre, b) \notin C23_Named
          /\ res.pre.token[TempOf(res.pre, b)].amount > 0

(***************************************************************************)
(* C24: a successful InitEscrow moves no funds.  It changes the data of    *)
(* the escrow account and the owner of the temp token account and nothing  *)
(* else: the temp account's balance, the initializer's receiving account   *)
(* and every lamport balance are what they were.                           *)
(***************************************************************************)
C24_InitEscrowFrame ==
    (DoneInit /\ res.result = "Ok") =>
        /\ accounts.lamports = res.pre.lamports
        /\ accounts.token[tx.keys[2]].amount = res.pre.token[tx.keys[2]].amount
        /\ tx.keys[3] # tx.keys[2] => accounts.token[tx.keys[3]] = res.pre.token[tx.keys[3]]
        /\ accounts.token =
              [res.pre.token EXCEPT ![tx.keys[2]].owner = accounts.token[tx.keys[2]].owner]
        /\ \A e \in EscrowAccts \ {tx.keys[4]} : accounts.data[e] = res.pre.data[e]

\* An initiation whose temp account holds tokens and whose receiving account
\* is another account: the owner and the entry change.
C24_Witness ==
    /\ DoneInit
    /\ res.result = "Ok"
    /\ tx.keys[3] # tx.keys[2]
    /\ res.pre.token[tx.keys[2]].amount > 0
    /\ accounts.token[tx.keys[2]].owner # res.pre.token[tx.keys[2]].owner
    /\ accounts.data[tx.keys[4]] # res.pre.data[tx.keys[4]]

(***************************************************************************)
(* C25: every call of process runs exactly one handler, the one the        *)
(* payload's tag selects, with the amount the payload carries: the outcome,*)
(* the token calls and the handler's writes are those of InitEscrow with   *)
(* that amount for tag 0, and those of Exchange with that amount for tag 1.*)
(* A payload that does not decode ends the call with InvalidInstruction    *)
(* before any account is looked at: no token call, no write.               *)
(***************************************************************************)
C25_Ran(out) ==
    /\ res.result = out.result
    /\ res.at = out.at
    /\ res.calls = out.calls
    /\ res.work = out.acc

C25_OneOperation ==
    pc = "done" =>
        IF tx.op = "InitEscrow"
        THEN /\ tx.data = Payload(InitEscrowTag, tx.amount)
             /\ C25_Ran(process_init_escrow(res.pre, tx.keys, tx.signer,
                                             tx.amount, ProgramId))
             /\ res.result = "Ok" =>
                   EntryOf(accounts, tx.keys[4]).val.expected_amount = tx.amount
        ELSE IF tx.op = "Exchange"
        THEN /\ tx.data = Payload(ExchangeTag, tx.amount)
             /\ C25_Ran(process_exchange(res.pre, tx.keys, tx.signer,
                                          tx.amount, ProgramId))
             /\ res.result = "Ok" => res.pre.token[XTemp].amount = tx.amount
        ELSE /\ ~EscrowInstruction_unpack(tx.data).ok
             /\ res.result = "InvalidInstruction"
             /\ res.at = "unpack_instruction"
             /\ res.calls = <<>>
             /\ Untouched

\* The accounts of a settlement that would go through, sent with the tag of
\* Exchange and no amount.
C25_Witness ==
    /\ pc = "done"
    /\ tx.op = "Undecodable"
    /\ Len(tx.data) = 1
    /\ tx.data[1] = ExchangeTag
    /\ Len(tx.keys) = 9
    /\ EntryOf(res.pre, XEscrow).ok
    /\ TempOf(res.pre, XEscrow) = XTemp
    /\ res.result = "InvalidInstruction"

(***************************************************************************)
(* The greeting counter of solana/helloWorld/src/program-rust/src/lib.rs.  *)
(* A greeted account holds counter: u32 and free_counter: u64, little      *)
(* endian, counter first.  A u32 has U32Bytes bytes; at most MaxGreetings  *)
(* instructions are run.                                                   *)
(***************************************************************************)
U32Bytes == 2
MaxGreetings == 4

U32_MAX == Pow(ByteBase, U32Bytes) - 1

GreetingProgramId == "hello_program"

\* g1 and g3 are owned by the program, g2 is not; g3 is one byte short.
GreetingAccts == {"g1", "g2", "g3"}

\* const LEN
GreetingAccount_LEN == U32Bytes + U64Bytes

\* GreetingAccount::unpack_from_slice
GreetingAccount_unpack_from_slice(src) ==
    [counter |-> DecLE(SubSeq(src, 1, U32Bytes)),
     free_counter |-> DecLE(SubSeq(src, U32Bytes + 1, GreetingAccount_LEN))]

\* Pack::unpack_unchecked: the length is checked, then unpack_from_slice.
GreetingAccount_unpack_unchecked(input) ==
    IF Len(input) # GreetingAccount_LEN
    THEN [ok |-> FALSE, err |-> "InvalidAccountData",
          val |-> [counter |-> 0, free_counter |-> 0]]
    ELSE [ok |-> TRUE, err |-> "none", val |-> GreetingAccount_unpack_from_slice(input)]

\* BorshSerialize of GreetingAccount, written over the start of dst: the
\* fields in their order of declaration, little endian.
GreetingAccount_serialize(greeting_account, dst) ==
    LET bytes == EncLE(greeting_account.counter, U32Bytes)
                    \o EncLE(greeting_account.free_counter, U64Bytes)
    IN  IF Len(dst) < Len(bytes)
        THEN [ok |-> FALSE, err |-> "BorshIoError", data |-> dst]
        ELSE [ok |-> TRUE, err |-> "none",
              data |-> bytes \o SubSeq(dst, Len(bytes) + 1, Len(dst))]

\* GreetingInstruction::unpack: tag 0 is InitGreeting, its amount the first
\* eight bytes after the tag.
GreetingInstruction_unpack(input) ==
    IF input = <<>>
    THEN [ok |-> FALSE, err |-> "InvalidInstruction", amount |-> 0]
    ELSE IF input[1] # 0
    THEN [ok |-> FALSE, err |-> "InvalidInstruction", amount |-> 0]
    ELSE IF Len(input) - 1 < U64Bytes
    THEN [ok |-> FALSE, err |-> "InvalidInstruction", amount |-> 0]
    ELSE [ok |-> TRUE, err |-> "none",
          amount |-> DecLE(SubSeq(input, 2, 1 + U64Bytes))]

\* a += b on an unsigned integer of maximum max: past the maximum the
\* program panics if it was built with overflow checks and wraps if not.
AddAssign(a, b, max, overflow_checks) ==
    IF a + b <= max THEN [ok |-> TRUE, val |-> a + b]
    ELSE IF overflow_checks THEN [ok |-> FALSE, val |-> a]
    ELSE [ok |-> TRUE, val |-> (a + b) % (max + 1)]

\* Variant: the two increments are exchanged.
Greeted_exchanged(greeting_account, amount, overflow_checks) ==
    LET counter == AddAssign(greeting_account.counter, amount, U32_MAX, overflow_checks)
        free_counter == AddAssign(greeting_account.free_counter, 1, U64_MAX, overflow_checks)
    IN  [ok |-> counter.ok /\ free_counter.ok,
         val |-> [counter |-> counter.val, free_counter |-> free_counter.val]]

\* greeting_account.counter += 1; greeting_account.free_counter += amount;
Greeted(greeting_account, amount, overflow_checks) ==
    LET counter == AddAssign(greeting_account.counter, 1, U32_MAX, overflow_checks)
        free_counter == AddAssign(greeting_account.free_counter, amount, U64_MAX, overflow_checks)
    IN  [ok |-> counter.ok /\ free_counter.ok,
         val |-> [counter |-> counter.val, free_counter |-> free_counter.val]]

GreetingReturn(result, acc) == [result |-> result, acc |-> acc]

process_greeting(acc, keys, amount, program_id, overflow_checks) ==
    IF ~HasAccount(keys, 2)
    THEN GreetingReturn("NotEnoughAccountKeys", acc)
    ELSE IF acc.owner[keys[1]] # program_id
    THEN GreetingReturn("IncorrectProgramId", acc)
    ELSE
    LET account == keys[1]
        unpacked == GreetingAccount_unpack_unchecked(acc.data[account])
        greeted == Greeted(unpacked.val, amount, overflow_checks)
        written == GreetingAccount_serialize(greeted.val, acc.data[account])
    IN  IF ~unpacked.ok THEN GreetingReturn(unpacked.err, acc)
        ELSE IF ~greeted.ok THEN GreetingReturn("Panic", acc)
        ELSE IF ~written.ok THEN GreetingReturn(written.err, acc)
        ELSE GreetingReturn("Ok", [acc EXCEPT !.data[account] = written.data])

\* Processor::process of the greeting program.
Greeting_process(acc, instruction, program_id, overflow_checks) ==
    LET decoded == GreetingInstruction_unpack(instruction.data)
    IN  IF ~decoded.ok THEN GreetingReturn(decoded.err, acc)
        ELSE process_greeting(acc, instruction.keys, decoded.amount, program_id,
                              overflow_checks)

GreetingAmounts == {0, 1, 2}

\* InitGreeting { amount } on each account with a greeter, on g1 without
\* one, and payloads that are no instruction.
GreetingInputs ==
    {[keys |-> <<g, "alice">>, amount |-> a, data |-> <<0>> \o EncLE(a, U64Bytes)] :
        g \in GreetingAccts, a \in GreetingAmounts}
    \cup {[keys |-> k, amount |-> 1, data |-> <<0>> \o EncLE(1, U64Bytes)] :
            k \in {<<>>, <<"g1">>, <<"g2">>}}
    \cup {[keys |-> <<"g1", "alice">>, amount |-> 1, data |-> d] :
            d \in {<<>>, <<1>> \o EncLE(1, U64Bytes), <<0>>}}

NoGreeting == [keys |-> <<>>, amount |-> 0, data |-> <<>>]

GreetingLedger(c0, f0) ==
    [owner |-> [g \in GreetingAccts |->
                    IF g = "g2" THEN SystemProgramId ELSE GreetingProgramId],
     data |-> [g \in GreetingAccts |->
                    IF g = "g3"
                    THEN Zeroes(GreetingAccount_LEN - 1)
                    ELSE GreetingAccount_serialize(
                            [counter |-> c0, free_counter |-> f0],
                            Zeroes(GreetingAccount_LEN)).data]]

\* history: how the program was built, how many instructions were run, and
\* for each account what it held at first, how many greetings succeeded on
\* it and what their amounts add up to.
GreetingInit ==
    /\ \E c0 \in {0, U32_MAX - 1}, f0 \in {0, U64_MAX - 2} :
            accounts = GreetingLedger(c0, f0)
    /\ pc = "idle"
    /\ tx = NoGreeting
    /\ res = [result |-> "none", pre |-> accounts]
    /\ deposits = 0
    /\ \E b \in BOOLEAN :
            history = [overflow_checks |-> b, run |-> 0, first |-> accounts.data,
                       n |-> [g \in GreetingAccts |-> 0],
                       sum |-> [g \in GreetingAccts |-> 0]]

GreetingSubmit ==
    /\ pc = "idle"
    /\ history.run < MaxGreetings
    /\ \E i \in GreetingInputs : tx' = i
    /\ pc' = "pending"
    /\ UNCHANGED <<accounts, res, deposits, history>>

\* The runtime runs the instruction and keeps its writes if it returned Ok.
GreetingProcess ==
    /\ pc = "pending"
    /\ LET out == Greeting_process(accounts, tx, GreetingProgramId,
                                   history.overflow_checks)
       IN  /\ accounts' = Commit(accounts, out)
           /\ res' = [result |-> out.result, pre |-> accounts]
           /\ history' =
                IF out.result = "Ok"
                THEN [history EXCEPT !.run = @ + 1,
                                     !.n[tx.keys[1]] = @ + 1,
                                     !.sum[tx.keys[1]] = @ + tx.amount]
                ELSE [history EXCEPT !.run = @ + 1]
    /\ pc' = "idle"
    /\ UNCHANGED <<tx, deposits>>

GreetingNext ==
    \/ GreetingSubmit
    \/ GreetingProcess

GreetingSpec == GreetingInit /\ [][GreetingNext]_vars

(***************************************************************************)
(* C26: on an account owned by the program every successful greeting adds  *)
(* 1 to counter and its amount to free_counter, so that after n successful *)
(* greetings of amounts a1 .. an the account holds counter = c0 + n and    *)
(* free_counter = f0 + a1 + .. + an, as long as these fit in a u32 and a   *)
(* u64.  A greeting, with its greeter, on an account the program does not  *)
(* own fails with IncorrectProgramId, and no account data changes.         *)
(***************************************************************************)
C26_Held(data) == GreetingAccount_unpack_from_slice(data)

C26_Greeted == pc = "idle" /\ res.result # "none"

C26_EachGreeting ==
    (C26_Greeted /\ res.result = "Ok") =>
        LET before == C26_Held(res.pre.data[tx.keys[1]])
            after == C26_Held(accounts.data[tx.keys[1]])
        IN  /\ accounts.owner[tx.keys[1]] = GreetingProgramId
            /\ before.counter + 1 <= U32_MAX => after.counter = before.counter + 1
            /\ before.free_counter + tx.amount <= U64_MAX
                  => after.free_counter = before.free_counter + tx.amount
            /\ \A g \in GreetingAccts \ {tx.keys[1]} :
                  accounts.data[g] = res.pre.data[g]

C26_AllGreetings ==
    \A g \in GreetingAccts :
        Len(accounts.data[g]) = GreetingAccount_LEN =>
            /\ C26_Held(history.first[g]).counter + history.n[g] <= U32_MAX
                  => C26_Held(accounts.data[g]).counter
                        = C26_Held(history.first[g]).counter + history.n[g]
            /\ C26_Held(history.first[g]).free_counter + history.sum[g] <= U64_MAX
                  => C26_Held(accounts.data[g]).free_counter
                        = C26_Held(history.first[g]).free_counter + history.sum[g]

C26_NotOwned ==
    (/\ C26_Greeted
     /\ GreetingInstruction_unpack(tx.data).ok
     /\ Len(tx.keys) >= 2
     /\ res.pre.owner[tx.keys[1]] # GreetingProgramId)
        => res.result = "IncorrectProgramId" /\ accounts = res.pre

C26_GreetingCounter ==
    /\ C26_EachGreeting
    /\ C26_AllGreetings
    /\ C26_NotOwned

\* Three greetings succeeded on g1, and the last greeting, on the account of
\* another program, was refused.
C26_Witness ==
    /\ C26_Greeted
    /\ history.n["g1"] = 3
    /\ history.sum["g1"] > 3
    /\ C26_Held(accounts.data["g1"]).counter = 3
    /\ tx.keys = <<"g2", "alice">>
    /\ res.result = "IncorrectProgramId"

(***************************************************************************)
(* Color of rust/day1-test/src/day1-test.rs and its Display.  A string is  *)
(* the sequence of its characters.                                         *)
(***************************************************************************)
LowerHexDigits ==
    <<"0", "1", "2", "3", "4", "5", "6", "7", "8", "9", "a", "b", "c", "d", "e", "f">>

DecimalDigits == SubSeq(LowerHexDigits, 1, 10)

\* The digits of n in the base of the digit list, the most significant
\* first, as many as n needs and at least one: what {} and {:x} print of an
\* unsigned integer.
RECURSIVE Digits(_, _)
Digits(n, digits) ==
    IF n < Len(digits) THEN <<digits[n + 1]>>
    ELSE Digits(n \div Len(digits), digits) \o <<digits[(n % Len(digits)) + 1]>>

\* char::to_uppercase on the characters that occur
UpperChar(c) ==
    CASE c = "a" -> "A" [] c = "b" -> "B" [] c = "c" -> "C"
      [] c = "d" -> "D" [] c = "e" -> "E" [] c = "f" -> "F" [] OTHER -> c

\* str::to_uppercase
to_uppercase(str) == [i \in 1..Len(str) |-> UpperChar(str[i])]

\* fn hex: the fold of format!("{}{:x}", s, b) over the bytes
RECURSIVE hex(_)
hex(bytes) ==
    IF bytes = <<>> THEN <<>>
    ELSE hex(SubSeq(bytes, 1, Len(bytes) - 1))
            \o Digits(bytes[Len(bytes)], LowerHexDigits)

\* "RGB ({}, {}, {}) 0x"
ColorPrefix(color) ==
    <<"R", "G", "B", " ", "(">> \o Digits(color.red, DecimalDigits)
        \o <<",", " ">> \o Digits(color.green, DecimalDigits)
        \o <<",", " ">> \o Digits(color.blue, DecimalDigits)
        \o <<")", " ", "0", "x">>

\* impl fmt::Display for Color
Color_fmt(color) ==
    ColorPrefix(color)
        \o to_uppercase(hex(<<color.red, color.green, color.blue>>))

\* Values of a u8 channel: those of main, and the ends of the one-digit and
\* two-digit ranges.
ChannelValues == {0, 3, 15, 16, 90, 128, 254, 255}

Colors == [red : ChannelValues, green : ChannelValues, blue : ChannelValues]

ColorInit ==
    /\ accounts = InitAccounts(2)
    /\ pc = "color"
    /\ tx \in Colors
    /\ res = <<>>
    /\ deposits = 0
    /\ history = NoHistory

\* println!("{:}", *color)
ColorPrint ==
    /\ pc = "color"
    /\ res' = Color_fmt(tx)
    /\ pc' = "printed"
    /\ UNCHANGED <<accounts, tx, deposits, history>>

ColorNext == ColorPrint

ColorSpec == ColorInit /\ [][ColorNext]_vars

(***************************************************************************)
(* C27: what Display prints of a Color is "RGB (r, g, b) 0x" followed by   *)
(* exactly six upper-case hexadecimal digits, two for each channel with    *)
(* leading zeros: (0, 3, 254) ends in 0x0003FE and (0, 0, 0) in 0x000000.  *)
(***************************************************************************)
C27_TwoDigits(n) ==
    <<UpperChar(LowerHexDigits[(n \div Len(LowerHexDigits)) + 1]),
      UpperChar(LowerHexDigits[(n % Len(LowerHexDigits)) + 1])>>

C27_SixHexDigits ==
    pc = "printed" =>
        res = ColorPrefix(tx) \o C27_TwoDigits(tx.red) \o C27_TwoDigits(tx.green)
                \o C27_TwoDigits(tx.blue)

====
